---- MODULE Spec2Model ----
(***************************************************************************)
(* Model of upload_video.py: the command-line entry point, the             *)
(* construction of the insert request and the resumable upload loop with   *)
(* its retry counter and randomized exponential backoff.                   *)
(***************************************************************************)
EXTENDS FiniteSets, Integers, Naturals, Sequences, TLC

VARIABLES
  pc,             \* position of the single thread of control
  file_exists,    \* os.path.exists(args.file)
  keywords,       \* args.keywords, a sequence of characters
  privacyStatus,  \* args.privacyStatus
  authenticated,  \* get_authenticated_service returned a client
  body,           \* request body handed to videos().insert, or NoBody
  response,       \* local of resumable_upload
  error,          \* local of resumable_upload
  retry,          \* local of resumable_upload
  sleep_seconds,  \* last argument of time.sleep, in units of 1/RandDenom s
  last,           \* result of the latest next_chunk call
  outcomes,       \* class of every next_chunk result so far, in order
  calls,          \* number of next_chunk calls
  sleeps,         \* number of time.sleep calls
  successes,      \* number of times the success message was printed
  reported,       \* terminal messages produced so far
  ended           \* how the process ended: "running", "return", "exit", "raise"

vars == <<pc, file_exists, keywords, privacyStatus, authenticated, body,
          response, error, retry, sleep_seconds, last, outcomes, calls,
          sleeps, successes, reported, ended>>

----------------------------------------------------------------------------
(* Bounds of the model *)

\* longest --keywords value tried in the setup specification
MaxKeywordLen == 3
\* Progress results the session may deliver in one run
MaxProgress == 3
\* random.random() is drawn from {0/RandDenom, ..., (RandDenom-1)/RandDenom}
RandDenom == 2

----------------------------------------------------------------------------
(* Program constants *)

MAX_RETRIES == 10

\* the list lacks 504
RETRIABLE_STATUS_CODES_No504 == {500, 502, 503}

RETRIABLE_STATUS_CODES == {500, 502, 503, 504}

RETRIABLE_EXCEPTIONS == {"HttpLib2Error", "IOError"}

VALID_PRIVACY_STATUSES == {"public", "private", "unlisted"}

\* HTTP statuses the service may answer an upload request with
StatusCodes == {400, 403, 500, 502, 503, 504}

\* values of --keywords tried
KeywordInputs == { <<>>, <<"a">>, <<"a", ",", "b">> }

----------------------------------------------------------------------------
(* Values *)

\* Python's None for response and error
None == [kind |-> "None", status |-> 0, exc |-> "", keys |-> {}]

\* the error string built at line 88
HttpErrorText(s) == [kind |-> "http", status |-> s, exc |-> "", keys |-> {}]

\* the error string built at line 92
ExceptionText(x) == [kind |-> "exc", status |-> 0, exc |-> x, keys |-> {}]

\* a response dictionary with the given keys
ResponseDict(ks) == [kind |-> "dict", status |-> 0, exc |-> "", keys |-> ks]

\* what one call of insert_request.next_chunk() can do
ChunkResults ==
  {[kind |-> "return", status |-> 0, exc |-> "", response |-> None]}
  \cup {[kind |-> "return", status |-> 0, exc |-> "", response |-> ResponseDict(ks)] :
          ks \in {{"id", "kind"}, {"kind"}}}
  \cup {[kind |-> "HttpError", status |-> s, exc |-> "", response |-> None] :
          s \in StatusCodes}
  \cup {[kind |-> "raise", status |-> 0, exc |-> x, response |-> None] :
          x \in RETRIABLE_EXCEPTIONS}

NoResult == [kind |-> "none", status |-> 0, exc |-> "", response |-> None]

NoBody == [tags |-> <<>>, hasTags |-> FALSE, privacyStatus |-> "", built |-> FALSE]

----------------------------------------------------------------------------
(* Pure helpers *)

RECURSIVE Pow2(_)
\* 2 ** n
Pow2(n) == IF n = 0 THEN 1 ELSE 2 * Pow2(n - 1)

RECURSIVE SplitFrom(_, _, _)
\* str.split(","): scan s, cur is the piece being read, acc the pieces done
SplitFrom(s, cur, acc) ==
  IF s = <<>> THEN Append(acc, cur)
  ELSE IF Head(s) = "," THEN SplitFrom(Tail(s), <<>>, Append(acc, cur))
  ELSE SplitFrom(Tail(s), Append(cur, Head(s)), acc)

\* options.keywords.split(",")
Split(s) == SplitFrom(s, <<>>, <<>>)

\* the keywords are split without testing for the empty string
Tags_AlwaysSplit(kw) == [hasTags |-> TRUE, tags |-> Split(kw)]

\* tags = options.keywords.split(",") if options.keywords else None
Tags(kw) ==
  IF kw # <<>> THEN [hasTags |-> TRUE, tags |-> Split(kw)]
  ELSE [hasTags |-> FALSE, tags |-> <<>>]

\* the body dictionary of initialize_upload
Body(kw, privacy) ==
  [tags |-> Tags(kw).tags, hasTags |-> Tags(kw).hasTags,
   privacyStatus |-> privacy, built |-> TRUE]

\* a response counts as final as soon as it has any key
HasId_AnyKey(resp) == resp.keys # {}

\* "id" in response
HasId(resp) == "id" \in resp.keys

\* every error status is retried
IsRetriableStatus_AnyError(s) == s >= 400

\* e.resp.status in RETRIABLE_STATUS_CODES
IsRetriableStatus(s) == s \in RETRIABLE_STATUS_CODES

\* the loop never looks at response
LoopContinues_Always(resp) == TRUE

\* while response is None
LoopContinues(resp) == resp = None

\* the retry block runs in every iteration
ErrorPending_Always(e) == TRUE

\* the test for a pending error is inverted
ErrorPending_Inverted(e) == e = None

\* error is not None
ErrorPending(e) == e # None

\* the ceiling test gives up one retry early
RetryExceeded_AtCeiling(r) == r >= MAX_RETRIES

\* the ceiling test is off by one and allows an eleventh retry
RetryExceeded_Late(r) == r > MAX_RETRIES + 1

\* retry > MAX_RETRIES
RetryExceeded(r) == r > MAX_RETRIES

\* the exponent is one too large
SleepSeconds_NextPower(r, n) == r * Pow2(n + 1)

\* random.random() * (2 ** retry), with random.random() = r / RandDenom
SleepSeconds(r, n) == r * Pow2(n)

\* the class of a next_chunk result
ChunkOutcome(o) ==
  CASE o.kind = "return" /\ o.response = None -> "Progress"
    [] o.kind = "return" /\ "id" \in o.response.keys -> "Complete"
    [] o.kind = "return" -> "Unexpected"
    [] o.kind = "HttpError" /\ o.status \in {500, 502, 503, 504} -> "RetriableFailure"
    [] o.kind = "HttpError" -> "FatalFailure"
    [] OTHER -> "RetriableFailure"

RECURSIVE Count(_, _)
\* number of occurrences of x in the sequence s
Count(s, x) ==
  IF s = <<>> THEN 0
  ELSE (IF Head(s) = x THEN 1 ELSE 0) + Count(Tail(s), x)

----------------------------------------------------------------------------
(* Initial state: the interpreter has parsed the arguments *)

Init ==
  /\ pc = "main"
  /\ file_exists \in BOOLEAN
  /\ keywords \in KeywordInputs
  /\ privacyStatus \in VALID_PRIVACY_STATUSES
  /\ authenticated = FALSE
  /\ body = NoBody
  /\ response = None
  /\ error = None
  /\ retry = 0
  /\ sleep_seconds = 0
  /\ last = NoResult
  /\ outcomes = <<>>
  /\ calls = 0
  /\ sleeps = 0
  /\ successes = 0
  /\ reported = {}
  /\ ended = "running"

driverVars == <<response, error, retry, sleep_seconds, last, outcomes, calls, sleeps,
                successes>>

\* the file check is missing
CheckFile_Skipped ==
  /\ pc = "main"
  /\ pc' = "auth"
  /\ UNCHANGED <<file_exists, keywords, privacyStatus, authenticated, body,
                 reported, ended>>
  /\ UNCHANGED driverVars

\* if not os.path.exists(args.file): exit(...)
CheckFile ==
  /\ pc = "main"
  /\ IF file_exists
       THEN /\ pc' = "auth"
            /\ UNCHANGED <<reported, ended>>
       ELSE /\ pc' = "done"
            /\ reported' = reported \cup {"InvalidFile"}
            /\ ended' = "exit"
  /\ UNCHANGED <<file_exists, keywords, privacyStatus, authenticated, body>>
  /\ UNCHANGED driverVars

\* youtube = get_authenticated_service(args); the credential flow is external
\* and either returns a client or fails
GetAuthenticatedService ==
  /\ pc = "auth"
  /\ \E ok \in BOOLEAN :
       IF ok
         THEN /\ authenticated' = TRUE
              /\ pc' = "init"
              /\ UNCHANGED <<reported, ended>>
         ELSE /\ authenticated' = FALSE
              /\ pc' = "done"
              /\ reported' = reported \cup {"AuthError"}
              /\ ended' = "raise"
  /\ UNCHANGED <<file_exists, keywords, privacyStatus, body>>
  /\ UNCHANGED driverVars

\* initialize_upload up to the call of resumable_upload, and the three
\* initialisations at the top of resumable_upload
InitializeUpload ==
  /\ pc = "init"
  /\ body' = Body(keywords, privacyStatus)
  /\ response' = None
  /\ error' = None
  /\ retry' = 0
  /\ pc' = "while"
  /\ UNCHANGED <<file_exists, keywords, privacyStatus, authenticated,
                 sleep_seconds, last, outcomes, calls, sleeps, successes,
                 reported, ended>>

\* one pass through the try statement of the loop: the while test succeeds,
\* next_chunk is called and its result o is handled
NextChunk(o) ==
  /\ pc = "while"
  /\ LoopContinues(response)
  /\ calls' = calls + 1
  /\ last' = o
  /\ outcomes' = Append(outcomes, ChunkOutcome(o))
  /\ IF o.kind = "return"
       THEN /\ response' = o.response
            /\ error' = error
            /\ IF o.response # None
                 THEN IF HasId(o.response)
                        THEN /\ reported' = reported \cup {"Succeeded"}
                             /\ successes' = successes + 1
                             /\ pc' = "check"
                             /\ ended' = ended
                        ELSE /\ reported' = reported \cup {"Unexpected"}
                             /\ pc' = "done"
                             /\ ended' = "exit"
                             /\ successes' = successes
                 ELSE /\ pc' = "check"
                      /\ UNCHANGED <<reported, ended, successes>>
       ELSE IF o.kind = "HttpError"
         THEN IF IsRetriableStatus(o.status)
                THEN /\ error' = HttpErrorText(o.status)
                     /\ pc' = "check"
                     /\ UNCHANGED <<response, reported, ended, successes>>
                ELSE \* re-raised, caught and printed by the main block
                     /\ reported' = reported \cup {"HttpError"}
                     /\ pc' = "done"
                     /\ ended' = "raise"
                     /\ UNCHANGED <<response, error, successes>>
         ELSE /\ error' = ExceptionText(o.exc)
              /\ pc' = "check"
              /\ UNCHANGED <<response, reported, ended, successes>>
  /\ UNCHANGED <<file_exists, keywords, privacyStatus, authenticated, body,
                 retry, sleep_seconds, sleeps>>

\* the if statement after the try statement: count the retry, give up or sleep
CheckError ==
  /\ pc = "check"
  /\ IF ErrorPending(error)
       THEN /\ retry' = retry + 1
            /\ IF RetryExceeded(retry + 1)
                 THEN /\ reported' = reported \cup {"Exhausted"}
                      /\ pc' = "done"
                      /\ ended' = "exit"
                      /\ UNCHANGED <<sleep_seconds, sleeps>>
                 ELSE /\ \E r \in 0..(RandDenom - 1) :
                           sleep_seconds' = SleepSeconds(r, retry + 1)
                      /\ sleeps' = sleeps + 1
                      /\ pc' = "while"
                      /\ UNCHANGED <<reported, ended>>
       ELSE /\ pc' = "while"
            /\ UNCHANGED <<retry, sleep_seconds, sleeps, reported, ended>>
  /\ UNCHANGED <<file_exists, keywords, privacyStatus, authenticated, body,
                 response, error, last, outcomes, calls, successes>>

\* the while test fails: resumable_upload, initialize_upload and the main
\* block return
WhileExit ==
  /\ pc = "while"
  /\ ~LoopContinues(response)
  /\ pc' = "done"
  /\ ended' = "return"
  /\ UNCHANGED <<file_exists, keywords, privacyStatus, authenticated, body,
                 reported>>
  /\ UNCHANGED driverVars

\* the session's stream of results is finite: it delivers at most MaxProgress
\* Progress results
SessionDelivers(o) ==
  ChunkOutcome(o) = "Progress" => Count(outcomes, "Progress") < MaxProgress

Next ==
  \/ CheckFile
  \/ GetAuthenticatedService
  \/ InitializeUpload
  \/ \E o \in ChunkResults : SessionDelivers(o) /\ NextChunk(o)
  \/ CheckError
  \/ WhileExit

Spec == Init /\ [][Next]_vars

\* the interpreter keeps running the thread until the process ends
FairSpec == Spec /\ WF_vars(Next)

\* characters of the --keywords values tried in the setup specification
KeywordChars == {"a", "b", ","}

\* every --keywords value up to MaxKeywordLen characters, and "a,b,c"
KeywordStrings ==
  UNION {[1..n -> KeywordChars] : n \in 0..MaxKeywordLen}
    \cup { <<"a", ",", "b", ",", "c">> }

\* the parsed arguments, with --keywords drawn from KeywordStrings
InitOptions ==
  /\ pc = "main"
  /\ file_exists \in BOOLEAN
  /\ keywords \in KeywordStrings
  /\ privacyStatus \in VALID_PRIVACY_STATUSES
  /\ authenticated = FALSE
  /\ body = NoBody
  /\ response = None
  /\ error = None
  /\ retry = 0
  /\ sleep_seconds = 0
  /\ last = NoResult
  /\ outcomes = <<>>
  /\ calls = 0
  /\ sleeps = 0
  /\ successes = 0
  /\ reported = {}
  /\ ended = "running"

\* the setup phase: everything up to the hand-over of the request body
NextOptions ==
  \/ CheckFile
  \/ GetAuthenticatedService
  \/ InitializeUpload

SpecOptions == InitOptions /\ [][NextOptions]_vars

\* a stream that is bounded only before the first retriable failure: after
\* it the session may deliver Progress for ever
SessionDeliversAfterFailure(o) ==
  (ChunkOutcome(o) = "Progress" /\ Count(outcomes, "RetriableFailure") = 0)
    => Count(outcomes, "Progress") < MaxProgress

\* the parsed arguments of a run with default keywords and privacy status
InitStream ==
  /\ pc = "main"
  /\ file_exists \in BOOLEAN
  /\ keywords = <<>>
  /\ privacyStatus = "public"
  /\ authenticated = FALSE
  /\ body = NoBody
  /\ response = None
  /\ error = None
  /\ retry = 0
  /\ sleep_seconds = 0
  /\ last = NoResult
  /\ outcomes = <<>>
  /\ calls = 0
  /\ sleeps = 0
  /\ successes = 0
  /\ reported = {}
  /\ ended = "running"

NextStream ==
  \/ CheckFile
  \/ GetAuthenticatedService
  \/ InitializeUpload
  \/ \E o \in ChunkResults : SessionDeliversAfterFailure(o) /\ NextChunk(o)
  \/ CheckError
  \/ WhileExit

\* the interpreter keeps running the thread until the process ends
StreamSpec == InitStream /\ [][NextStream]_vars /\ WF_vars(NextStream)

TypeOK ==
  /\ pc \in {"main", "auth", "init", "while", "check", "done"}
  /\ retry \in 0..(MAX_RETRIES + 1)
  /\ calls = Len(outcomes)

----------------------------------------------------------------------------
(* Vocabulary of the properties *)

\* n consecutive retriable failures
Failures(n) == [i \in 1..n |-> "RetriableFailure"]

\* the latest next_chunk call raised an HttpError outside 500, 502, 503, 504
LastIsFatal == last.kind = "HttpError" /\ last.status \notin {500, 502, 503, 504}

\* the latest next_chunk call returned a response without an "id"
LastLacksId == last.kind = "return" /\ last.response # None /\ "id" \notin last.response.keys

Succeeded == "Succeeded" \in reported

AbortedFatal == reported \cap {"HttpError", "Unexpected"} # {}

AbortedExhausted == "Exhausted" \in reported

----------------------------------------------------------------------------
(* Properties *)

\* C1: a run never reports both success and a failure (retries given up,
\* unexpected response, or a raised HttpError).
C1_NeverSuccessAndFailure ==
  ~(Succeeded /\ (AbortedFatal \/ AbortedExhausted))

\* C2: a run of exactly 10 consecutive retriable failures followed by a
\* complete response with an id ends as a success and not as exhausted.
C2_TenFailuresThenCompleteSucceeds ==
  (pc = "done" /\ outcomes = Append(Failures(10), "Complete"))
    => (reported = {"Succeeded"} /\ ended = "return")

\* C3: when a retriable failure is directly followed by a complete response,
\* the run succeeds and the retry counter at the end of the loop equals the
\* number of retriable failures received.
C3_RetryCountsFailures ==
  (/\ pc = "done"
   /\ Len(outcomes) >= 2
   /\ outcomes[Len(outcomes)] = "Complete"
   /\ outcomes[Len(outcomes) - 1] = "RetriableFailure")
    => (Succeeded /\ retry = Count(outcomes, "RetriableFailure"))

\* C4: an iteration whose attempt returned Progress leaves the retry counter
\* unchanged, and the counter changes only in an iteration whose own attempt
\* was a retriable failure.
C4_ProgressKeepsRetry ==
  [][/\ (pc = "check" /\ outcomes[Len(outcomes)] = "Progress") => retry' = retry
     /\ retry' # retry => outcomes[Len(outcomes)] = "RetriableFailure"]_vars

\* C5: time.sleep is called only in an iteration whose own attempt was a
\* retriable failure, never after Progress or Complete.
C5_SleepOnlyAfterOwnFailure ==
  [][sleeps' # sleeps => outcomes[Len(outcomes)] = "RetriableFailure"]_vars

\* C6: the run gives up retrying only when 11 retriable failures have been
\* received in that run.
C6_ExhaustedOnlyAfterElevenFailures ==
  AbortedExhausted => Count(outcomes, "RetriableFailure") = 11

\* C7: 11 consecutive retriable failures end the run as exhausted, after
\* exactly 11 next_chunk calls and exactly 10 sleeps.
C7_ElevenFailuresExhaust ==
  /\ [](outcomes = Failures(11) =>
          /\ calls = 11
          /\ sleeps = 10
          /\ pc \in {"check", "done"}
          /\ pc = "done" => (reported = {"Exhausted"} /\ ended = "exit"))
  /\ (outcomes = Failures(11)) ~> (pc = "done" /\ reported = {"Exhausted"})

C7_Witness ==
  /\ pc = "done"
  /\ outcomes = Failures(11)
  /\ reported = {"Exhausted"}
  /\ calls = 11
  /\ sleeps = 10

\* C8: once resumable_upload runs on a finite outcome stream it terminates,
\* in exactly one of Succeeded, AbortedFatal, AbortedExhausted.
C8_TerminatesInExactlyOne ==
  (pc = "while") ~>
    (/\ pc = "done"
     /\ \/ Succeeded /\ ~AbortedFatal /\ ~AbortedExhausted
        \/ ~Succeeded /\ AbortedFatal /\ ~AbortedExhausted
        \/ ~Succeeded /\ ~AbortedFatal /\ AbortedExhausted)

\* C9: an HttpError with a status outside 500, 502, 503, 504 ends the loop at
\* once, whatever the retry count: the retry counter is not incremented, no
\* sleep is performed and no further next_chunk call is made.
C9_FatalEndsLoopAtOnce ==
  [][/\ (calls' # calls /\ LastIsFatal') =>
           /\ pc' = "done"
           /\ ended' = "raise"
           /\ "HttpError" \in reported'
           /\ retry' = retry
           /\ sleeps' = sleeps
     /\ LastIsFatal => (calls' = calls /\ sleeps' = sleeps /\ retry' = retry)]_vars

C9_Witness ==
  /\ pc = "done"
  /\ LastIsFatal
  /\ retry > 0
  /\ reported = {"HttpError"}

\* C10: a final response without an "id" is never reported as success; the run
\* aborts at once with no retry, no sleep and no further next_chunk call, also
\* after earlier retriable failures.
C10_MissingIdIsFatal ==
  [][/\ (calls' # calls /\ LastLacksId') =>
           /\ pc' = "done"
           /\ ended' = "exit"
           /\ "Unexpected" \in reported'
           /\ ~Succeeded'
           /\ retry' = retry
           /\ sleeps' = sleeps
     /\ LastLacksId => (calls' = calls /\ sleeps' = sleeps /\ retry' = retry)]_vars

C10_Witness ==
  /\ pc = "done"
  /\ LastLacksId
  /\ retry > 0
  /\ reported = {"Unexpected"}

\* the latest next_chunk call raised what the claim calls a retriable failure
LastIsRetriable ==
  \/ last.kind = "raise" /\ last.exc \in {"HttpLib2Error", "IOError"}
  \/ last.kind = "HttpError" /\ last.status \in {500, 502, 503, 504}

\* the driver took the latest result as retriable: error describes it and
\* control reached the retry block
TakenAsRetriable ==
  /\ pc = "check"
  /\ \/ last.kind = "HttpError" /\ error = HttpErrorText(last.status)
     \/ last.kind = "raise" /\ error = ExceptionText(last.exc)

\* C11: a result is taken as retriable exactly when next_chunk raised
\* HttpLib2Error or IOError or an HttpError with status 500, 502, 503 or 504;
\* any other HttpError is not retried, not slept on, and leaves
\* resumable_upload as a raised exception.
C11_RetriableClassification ==
  [][calls' # calls =>
       /\ TakenAsRetriable' <=> LastIsRetriable'
       /\ (last'.kind = "HttpError" /\ ~LastIsRetriable') =>
            /\ ended' = "raise"
            /\ pc' = "done"
            /\ error' = error
            /\ retry' = retry
            /\ sleeps' = sleeps]_vars

C11_Witness ==
  /\ pc = "check"
  /\ last.kind = "HttpError"
  /\ last.status = 504
  /\ error = HttpErrorText(504)

\* C12: the sleep after the k-th retriable failure of a run is below 2^k,
\* k being the number of retriable failures received so far, also with
\* Progress results between the failures.
C12_SleepBoundedByFailureCount ==
  [][(sleeps' # sleeps /\ outcomes[Len(outcomes)] = "RetriableFailure") =>
       sleep_seconds' < RandDenom * Pow2(Count(outcomes, "RetriableFailure"))]_vars

\* C13 as stated: the sleep performed at the retry ceiling is drawn below
\* 2^11, i.e. it is a random fraction times 2^11.
C13_CeilingSleepBelowTwoToEleven ==
  [][(sleeps' # sleeps /\ retry' = MAX_RETRIES) =>
       \E r \in 0..(RandDenom - 1) : sleep_seconds' = r * Pow2(11)]_vars

\* C13 amended: every sleep is below 2^10 seconds, and the sleep at the retry
\* ceiling is a random fraction times 2^10; giving up at the 11th increment
\* of the counter performs no sleep.
C13_MaxSleepBelowTwoToTen ==
  [][/\ sleeps' # sleeps =>
          /\ sleep_seconds' < RandDenom * Pow2(10)
          /\ retry' = MAX_RETRIES =>
               \E r \in 0..(RandDenom - 1) : sleep_seconds' = r * Pow2(10)
     /\ (AbortedExhausted' /\ ~AbortedExhausted) =>
          (sleeps' = sleeps /\ sleep_seconds' = sleep_seconds)]_vars

C13_Witness ==
  /\ sleeps = 10
  /\ retry = 10
  /\ sleep_seconds = (RandDenom - 1) * Pow2(10)

\* C14: a missing file ends the program before authorization, before the
\* request is built and before any next_chunk call; and next_chunk is called
\* only after the file check passed and get_authenticated_service returned.
C14_SetupBeforeUpload ==
  /\ ~file_exists =>
       /\ pc \in {"main", "done"}
       /\ ~authenticated
       /\ ~body.built
       /\ calls = 0
       /\ pc = "done" => (reported = {"InvalidFile"} /\ ended = "exit")
  /\ (calls > 0 \/ pc \in {"while", "check"}) =>
       (file_exists /\ authenticated /\ body.built)

C14_Witness ==
  /\ pc = "done"
  /\ ~file_exists
  /\ reported = {"InvalidFile"}
  /\ calls = 0

RECURSIVE JoinComma(_)
\* the pieces of a non-empty sequence, written with "," between them
JoinComma(ts) ==
  IF Len(ts) = 1 THEN ts[1]
  ELSE ts[1] \o <<",">> \o JoinComma(Tail(ts))

\* C15: the body handed to the session has no tags when keywords is empty
\* (never one empty tag); otherwise its tags are the comma-separated pieces
\* of keywords in order ("a,b,c" gives a, b, c); and its privacyStatus is the
\* option's value.
C15_TagsAndPrivacy ==
  body.built =>
    /\ body.privacyStatus = privacyStatus
    /\ keywords = <<>> => (~body.hasTags /\ body.tags = <<>>)
    /\ keywords # <<>> =>
         /\ body.hasTags
         /\ Len(body.tags) = 1 + Count(keywords, ",")
         /\ \A i \in 1..Len(body.tags) : Count(body.tags[i], ",") = 0
         /\ JoinComma(body.tags) = keywords
    /\ keywords = <<"a", ",", "b", ",", "c">> =>
         body.tags = << <<"a">>, <<"b">>, <<"c">> >>

C15_Witness ==
  /\ body.built
  /\ keywords = <<"a", ",", "b", ",", "c">>
  /\ body.tags = << <<"a">>, <<"b">>, <<"c">> >>
  /\ body.privacyStatus = "unlisted"

\* position of the first retriable failure among the results
FirstFailure ==
  CHOOSE i \in 1..Len(outcomes) :
    /\ outcomes[i] = "RetriableFailure"
    /\ \A j \in 1..(i - 1) : outcomes[j] # "RetriableFailure"

\* C16: error is never cleared once set; after the first retriable failure
\* every iteration that does not abort increments retry by exactly one,
\* whatever its result; at most 10 more next_chunk calls follow the first
\* failure; and the loop then terminates even when the session keeps
\* delivering Progress.
C16_StaleErrorCountsEveryIteration ==
  /\ [][/\ error # None => error' = error \/ (error' # None /\ calls' # calls)
        /\ (pc = "check" /\ Count(outcomes, "RetriableFailure") > 0 /\ pc' # "done")
             => retry' = retry + 1]_vars
  /\ [](Count(outcomes, "RetriableFailure") > 0 => calls - FirstFailure <= 10)
  /\ (Count(outcomes, "RetriableFailure") > 0) ~> (pc = "done")

C16_Witness ==
  /\ pc = "done"
  /\ outcomes = <<"RetriableFailure">> \o [i \in 1..10 |-> "Progress"]
  /\ retry = 11
  /\ AbortedExhausted

\* C17: retry stays within 0..11; every sleep is performed with retry in
\* 1..10 and is below 2^retry; and the run gives up exactly when retry has
\* just become 11.
C17_RetryRange ==
  /\ [](retry \in 0..11 /\ (AbortedExhausted <=> retry = 11))
  /\ [][/\ sleeps' # sleeps =>
             /\ retry' \in 1..10
             /\ sleep_seconds' < RandDenom * Pow2(retry')
             /\ Pow2(retry') <= Pow2(10)
        /\ (AbortedExhausted' /\ ~AbortedExhausted) <=> (retry = 10 /\ retry' = 11)]_vars

C17_Witness ==
  /\ pc = "done"
  /\ retry = 11
  /\ sleeps = 10
  /\ AbortedExhausted
  /\ Count(outcomes, "Progress") > 0

\* C18: once next_chunk has returned a response that is not None, with or
\* without an id, next_chunk is not called again, and the success message is
\* printed at most once.
C18_NoCallAfterResponse ==
  /\ [](successes <= 1)
  /\ [][(last.kind = "return" /\ last.response # None) =>
          (calls' = calls /\ successes' = successes)]_vars

C18_Witness ==
  /\ pc = "done"
  /\ ended = "return"
  /\ last.kind = "return"
  /\ last.response # None
  /\ successes = 1
  /\ Count(outcomes, "Progress") = MaxProgress

\* C19: in a run without a retriable failure retry stays 0, error stays
\* unset, no sleep is performed, and the run ends only by a complete response
\* or by a fatal failure, never by giving up.
C19_NoFailureNoRetry ==
  Count(outcomes, "RetriableFailure") = 0 =>
    /\ retry = 0
    /\ error = None
    /\ sleeps = 0
    /\ ~AbortedExhausted
    /\ (pc = "done" /\ calls > 0) =>
         \/ Succeeded /\ ended = "return" /\ ~AbortedFatal
         \/ AbortedFatal /\ ended \in {"exit", "raise"} /\ ~Succeeded

C19_Witness ==
  /\ pc = "done"
  /\ Count(outcomes, "RetriableFailure") = 0
  /\ Count(outcomes, "Progress") > 0
  /\ reported = {"Succeeded"}
  /\ retry = 0

====
